---- MODULE Spec2Model ----
(***************************************************************************)
(* TLS material provisioning of droppy: utils.tlsInit, createDH and        *)
(* readFile of server/utils.js, together with the persisted "dhparam"      *)
(* entry of the database that concurrent provisioning calls share.         *)
(*                                                                         *)
(* Values.  Every JavaScript value the code handles is a record with a tag *)
(* t: the undefined value, a text (file contents, a sequence of            *)
(* characters) and a DH parameter PEM (abstracted to the modulus size the  *)
(* inspector reports for it, bits = 0 for contents the inspector cannot    *)
(* parse, and to its identity: which file, which generation).              *)
(***************************************************************************)
EXTENDS Integers, Sequences, FiniteSets, TLC

\* ------------------------------------------------------------------ bounds
\* Number of tlsInit calls made in one behaviour (two run concurrently).
MaxStarts == 2

\* --------------------------------------------------------------- constants
DHPARAM_BITS == 2048
MIN_DH_BITS == 1024

\* The call slots: at most two provisioning calls are in flight at a time.
Calls == {1, 2}

Undefined == [t |-> "undefined"]
Text(s) == [t |-> "text", s |-> s]
DH(bits, from, n) == [t |-> "dh", bits |-> bits, from |-> from, n |-> n]

\* Mutation: only the empty string is rejected (v !== "" for !v).
TruthyNonEmpty(v) == v # Text(<<>>)

\* JavaScript truthiness of a value: undefined and the empty string are falsy.
Truthy(v) == v # Undefined /\ v # Text(<<>>)

\* ------------------------------------------------------------ string maths
certStart == <<"-", "B", "-">>
certEnd == <<"-", "E", "-">>

\* The positions (0-based, as in JavaScript) at which pat occurs in s.
Occurrences(s, pat) ==
  {i \in 0..(Len(s) - Len(pat)) : SubSeq(s, i + 1, i + Len(pat)) = pat}

Min(S) == CHOOSE m \in S : \A k \in S : m <= k
Max(S) == CHOOSE m \in S : \A k \in S : m >= k

\* String.prototype.indexOf / lastIndexOf: -1 when pat does not occur.
indexOf(s, pat) ==
  IF Occurrences(s, pat) = {} THEN -1 ELSE Min(Occurrences(s, pat))
\* Mutation: the first occurrence is taken (indexOf for lastIndexOf).
lastIndexOfFirst(s, pat) ==
  IF Occurrences(s, pat) = {} THEN -1 ELSE Min(Occurrences(s, pat))
lastIndexOf(s, pat) ==
  IF Occurrences(s, pat) = {} THEN -1 ELSE Max(Occurrences(s, pat))

Clamp(i, n) == IF i < 0 THEN 0 ELSE IF i > n THEN n ELSE i

\* String.prototype.substring(from, to): arguments clamped to 0..length and
\* swapped when from > to; characters from..to-1.
substring(s, from, to) ==
  LET a == Clamp(from, Len(s))
      b == Clamp(to, Len(s))
  IN  IF a <= b THEN SubSeq(s, a + 1, b) ELSE SubSeq(s, b + 1, a)

\* ----------------------------------------------------------- file system
\* One PEM certificate block with body character b.
PEM(b) == certStart \o <<b>> \o certEnd

NoPath == "<none>"

KeyPaths == {NoPath, "key.pem", "nope.key"}
CertPaths == {NoPath, "leaf.crt", "chain2.crt", "chain3.crt", "nope.crt",
              "eacces.crt"}
CaPaths == {NoPath, "ca.pem", "nope.ca"}
DhPaths == {NoPath, "dh512.pem", "dh1024.pem", "junk.pem", "nope.dh"}

\* fs.stat(p): stats.isFile().
IsFile(p) == p \notin {NoPath, "nope.key", "nope.crt", "nope.ca", "nope.dh"}
\* fs.readFile(p) ends with an error (the file exists but cannot be read).
ReadFails(p) == p = "eacces.crt"
\* The leaf certificate block and the chain blocks of a certificate file.
LeafOf(p) == PEM("l")
ChainOf(p) ==
  CASE p = "chain2.crt" -> PEM("i")
    [] p = "chain3.crt" -> PEM("i") \o PEM("r")
    [] OTHER            -> <<>>
\* String(data) of a file that can be read.
Contents(p) ==
  CASE p = "key.pem"    -> Text(<<"K">>)
    [] p \in {"leaf.crt", "chain2.crt", "chain3.crt"}
                        -> Text(LeafOf(p) \o ChainOf(p))
    [] p = "ca.pem"     -> Text(PEM("c"))
    [] p = "dh512.pem"  -> DH(512, "file", 0)
    [] p = "dh1024.pem" -> DH(MIN_DH_BITS, "file", 0)
    [] p = "junk.pem"   -> DH(0, "file", 0)
    [] OTHER            -> Undefined

\* readFile(p, cb): the arguments cb is called with.
readFile(p) ==
  IF p = NoPath THEN [err |-> FALSE, v |-> Undefined]
  ELSE IF ~IsFile(p) THEN [err |-> FALSE, v |-> Undefined]
  ELSE IF ReadFails(p) THEN [err |-> TRUE, v |-> Undefined]
  ELSE [err |-> FALSE, v |-> Contents(p)]

Fields == {"key", "cert", "ca", "dhparam"}

\* Mutation: one of the two paths is enough (|| for &&).
UserModeEither(o) == o.key # NoPath \/ o.cert # NoPath

\* typeof opts.key === "string" && typeof opts.cert === "string"
UserMode(o) == o.key # NoPath /\ o.cert # NoPath

AllConfigs == [key : KeyPaths, cert : CertPaths, ca : CaPaths, dhparam : DhPaths]

\* The configurations tlsInit is called with:
\*  - key or cert missing, with and without (unused) ca and dhparam paths;
\*  - all files readable: every certificate file with and without a ca file,
\*    and every dhparam file;
\*  - every combination of absent key, cert, ca and dhparam files;
\*  - a certificate file whose read fails, next to readable and absent files.
SelfSignedConfigs ==
  {o \in AllConfigs :
     /\ o.key = NoPath \/ o.cert = NoPath
     /\ o.key \in {NoPath, "key.pem"} /\ o.cert \in {NoPath, "leaf.crt"}
     /\ <<o.ca, o.dhparam>> \in {<<NoPath, NoPath>>, <<"ca.pem", "dh512.pem">>}}
ReadableConfigs ==
  {o \in AllConfigs :
     /\ o.key = "key.pem"
     /\ o.cert \in {"leaf.crt", "chain2.crt", "chain3.crt"}
     /\ o.ca \in {NoPath, "ca.pem"}
     /\ o.dhparam \in {NoPath, "dh512.pem", "dh1024.pem", "junk.pem"}
     /\ o.dhparam = NoPath \/ (o.ca = NoPath /\ o.cert # "chain2.crt")}
AbsentConfigs ==
  {o \in AllConfigs :
     /\ o.key \in {"key.pem", "nope.key"}
     /\ o.cert \in {"leaf.crt", "nope.crt"}
     /\ o.ca \in {NoPath, "nope.ca"}
     /\ o.dhparam \in {NoPath, "nope.dh"}}
FailingReadConfigs ==
  {o \in AllConfigs :
     /\ o.key \in {"key.pem", "nope.key"}
     /\ o.cert = "eacces.crt"
     /\ <<o.ca, o.dhparam>> \in {<<NoPath, NoPath>>, <<"ca.pem", "dh1024.pem">>}}
Configs ==
  SelfSignedConfigs \cup ReadableConfigs \cup AbsentConfigs
    \cup FailingReadConfigs

\* certPaths: path.resolve of key and cert, of ca and dhparam when truthy.
certPaths(o) == [f \in Fields |-> o[f]]

\* ------------------------------------------------------------- inspector
\* pem.getDhparamInfo(v, cb): an error for contents that are no DH parameters.
getDhparamInfo(v) ==
  IF v.t = "dh" /\ v.bits > 0 THEN [err |-> FALSE, size |-> v.bits]
  ELSE [err |-> TRUE, size |-> 0]

\* Mutation: the size is not checked.
TooShortNever(info) == FALSE

\* Mutation: the boundary size is rejected too (<= for <).
TooShortInclusive(info) == info.size <= MIN_DH_BITS

\* info.size < 1024
TooShort(info) == info.size < MIN_DH_BITS

\* ----------------------------------------------------------------- state
VARIABLES
  db,        \* db.get("dhparam"): the persisted DH parameter or Undefined
  db0,       \* the persisted value when the process started
  pc,        \* per call: where the call stands
  opts,      \* per call: the configuration it was called with
  data,      \* per call: key, cert, ca, dhparam held by the closure
  pending,   \* per call: reads still in flight when async.map called back
  result,    \* per call: the arguments of the last callback invocation
  ncb,       \* per call: number of callback invocations
  log,       \* per call: the messages it logged, in order
  ngen,      \* number of pem.createDhparam invocations so far
  gen,       \* per call: the generation (value of ngen) it is waiting for
  nstarted   \* number of tlsInit calls so far

vars == <<db, db0, pc, opts, data, pending, result, ncb, log, ngen, gen,
          nstarted>>

NoData == [key |-> Undefined, cert |-> Undefined, ca |-> Undefined,
           dhparam |-> Undefined]
NoOpts == [key |-> NoPath, cert |-> NoPath, ca |-> NoPath, dhparam |-> NoPath]
NoResult == [err |-> "none", bundle |-> Undefined]

\* The persisted value left by earlier runs (only createDH writes it): none,
\* or a parameter generated when DHPARAM_BITS was 512 or 1024.
StoredValues == {Undefined, DH(512, "db0", 0), DH(MIN_DH_BITS, "db0", 0)}

Init ==
  /\ db \in StoredValues
  /\ db0 = db
  /\ pc = [c \in Calls |-> "idle"]
  /\ opts = [c \in Calls |-> NoOpts]
  /\ data = [c \in Calls |-> NoData]
  /\ pending = [c \in Calls |-> {}]
  /\ result = [c \in Calls |-> NoResult]
  /\ ncb = [c \in Calls |-> 0]
  /\ log = [c \in Calls |-> <<>>]
  /\ ngen = 0
  /\ gen = [c \in Calls |-> 0]
  /\ nstarted = 0

Finished(c) == pc[c] \in {"done", "failed"}

\* ------------------------------------------------------------ operations
\* callback(err) / callback(null, bundle): the caller's callback is invoked.
Return(c, err, bundle) ==
  /\ result' = [result EXCEPT ![c] = [err |-> err, bundle |-> bundle]]
  /\ ncb' = [ncb EXCEPT ![c] = @ + 1]
  /\ pc' = [pc EXCEPT ![c] = IF err = "none" THEN "done" ELSE "failed"]

\* Mutation: the generation-start message is not logged.
createDHSilent(c, msgs) ==
  /\ log' = [log EXCEPT ![c] = msgs]
  /\ ngen' = ngen + 1
  /\ gen' = [gen EXCEPT ![c] = ngen + 1]
  /\ pc' = [pc EXCEPT ![c] = "dhgen"]

\* createDH(cb) up to the invocation of pem.createDhparam: the message is
\* logged and the generator started; msgs is what the call logged before.
createDH(c, msgs) ==
  /\ log' = [log EXCEPT ![c] = Append(msgs, "generating")]
  /\ ngen' = ngen + 1
  /\ gen' = [gen EXCEPT ![c] = ngen + 1]
  /\ pc' = [pc EXCEPT ![c] = "dhgen"]

\* Mutation: the requested size is ignored.
createDhparamDefaultSize(bits, n) == DH(bits \div 2, "gen", n)

\* Mutation: the size is taken in bytes.
createDhparamBytes(bits, n) == DH(bits \div 8, "gen", n)

\* pem.createDhparam(bits): the parameter the n-th generation produces.
createDhparam(bits, n) == DH(bits, "gen", n)

\* Mutation: the write is lost.
dbSetLost(old, v) == old

\* Mutation: the first writer wins (the value is set only when none is there).
dbSetIfAbsent(old, v) == IF old = Undefined THEN v ELSE old

\* db.set("dhparam", v): the persisted value after the write.
dbSet(old, v) == v

\* Mutation: the key is taken from the wrong entry of the results.
finishKeyFromCert(key, cert, ca, dhparam) ==
  [selfsigned |-> FALSE, key |-> cert, cert |-> cert, ca |-> ca,
   dhparam |-> dhparam]

\* finish(dhparam) of the user-supplied mode: the bundle handed to callback.
finish(key, cert, ca, dhparam) ==
  LET split == /\ ~Truthy(ca)
               /\ indexOf(cert.s, certStart) # lastIndexOf(cert.s, certStart)
      ca2   == IF split
               THEN Text(substring(cert.s, lastIndexOf(cert.s, certStart),
                                   Len(cert.s)))
               ELSE ca
      cert2 == IF split
               THEN Text(substring(cert.s, 0,
                                   indexOf(cert.s, certEnd) + Len(certEnd)))
               ELSE cert
  IN  [selfsigned |-> FALSE, key |-> key, cert |-> cert2, ca |-> ca2,
       dhparam |-> dhparam]

\* The data object of the self-signed mode (it has no ca property).
selfSignedData(d) ==
  [selfsigned |-> TRUE, key |-> d.key, cert |-> d.cert, ca |-> Undefined,
   dhparam |-> d.dhparam]

\* The first failing validation check, "none" when all four pass.
validate(o, d) ==
  IF ~Truthy(d.key) THEN "MissingKeyFile"
  ELSE IF ~Truthy(d.cert) THEN "MissingCertFile"
  ELSE IF o.ca # NoPath /\ ~Truthy(d.ca) THEN "MissingCAFile"
  ELSE IF o.dhparam # NoPath /\ ~Truthy(d.dhparam) THEN "MissingDHParamFile"
  ELSE "none"

\* utils.tlsInit(opts, callback): the reads of the four paths are handed to
\* async.map, or pem.createCertificate is invoked.  A new call takes the
\* lowest slot that holds no call in flight (the slots are interchangeable).
tlsInit(c, o) ==
  /\ pc[c] \in {"idle", "done", "failed"}
  /\ \A b \in Calls : b < c => pc[b] \notin {"idle", "done", "failed"}
  /\ nstarted < MaxStarts
  /\ nstarted' = nstarted + 1
  /\ opts' = [opts EXCEPT ![c] = o]
  /\ pc' = [pc EXCEPT ![c] = IF UserMode(o) THEN "reading" ELSE "certgen"]
  /\ data' = [data EXCEPT ![c] = NoData]
  /\ pending' = [pending EXCEPT ![c] = {}]
  /\ result' = [result EXCEPT ![c] = NoResult]
  /\ ncb' = [ncb EXCEPT ![c] = 0]
  /\ log' = [log EXCEPT ![c] = <<>>]
  /\ gen' = [gen EXCEPT ![c] = 0]
  /\ UNCHANGED <<db, db0, ngen>>

\* The reads whose result async.map holds when it calls back: all of them
\* when no read fails; otherwise the reads that completed before the first
\* failing read e did (the reads of absent paths complete synchronously).
\* The callbacks of readFile only fill the results array of their own call,
\* so the order in which they arrive is represented by this choice.
JoinSets(o) ==
  LET errs == {f \in Fields : readFile(certPaths(o)[f]).err}
      sync == {f \in Fields : certPaths(o)[f] = NoPath}
  IN  IF errs = {} THEN {[e |-> "none", S |-> Fields]}
      ELSE {[e |-> e, S |-> S] : e \in errs,
             S \in {T \in SUBSET (Fields \ errs) : sync \subseteq T}}

\* The results array async.map passes: results[index] of a completed read,
\* undefined for a failed read and for a read still in flight.
mapResults(o, S) ==
  [f \in Fields |-> IF f \in S THEN readFile(certPaths(o)[f]).v ELSE Undefined]

\* The final callback of async.map(certPaths, readFile, ...): validation,
\* then the DH parameter of the file is inspected, the persisted one is
\* taken, or one is generated.
mapCallback(c) ==
  /\ pc[c] = "reading"
  /\ \E j \in JoinSets(opts[c]) :
     LET d == mapResults(opts[c], j.S)
         v == validate(opts[c], d)
     IN  /\ data' = [data EXCEPT ![c] = d]
         /\ pending' = [pending EXCEPT ![c] =
               {f \in Fields : certPaths(opts[c])[f] # NoPath} \ (j.S \cup {j.e})]
         /\ IF v # "none"
            THEN /\ Return(c, v, Undefined)
                 /\ UNCHANGED <<log, ngen, gen>>
            ELSE IF Truthy(d.dhparam)
            THEN /\ pc' = [pc EXCEPT ![c] = "inspect"]
                 /\ UNCHANGED <<result, ncb, log, ngen, gen>>
            ELSE IF Truthy(db)
            THEN /\ Return(c, "none", finish(d.key, d.cert, d.ca, db))
                 /\ UNCHANGED <<log, ngen, gen>>
            ELSE /\ createDH(c, log[c])
                 /\ UNCHANGED <<result, ncb>>
  /\ UNCHANGED <<db, db0, opts, nstarted>>

\* The callback of pem.getDhparamInfo in the user-supplied mode.
dhparamInfoUser(c) ==
  /\ pc[c] = "inspect"
  /\ UserMode(opts[c])
  /\ LET d == data[c]
         info == getDhparamInfo(d.dhparam)
     IN  IF info.err
         THEN /\ Return(c, "DHInspectionError", Undefined)
              /\ UNCHANGED <<log, ngen, gen>>
         ELSE IF TooShort(info)
         THEN /\ createDH(c, Append(log[c], "too short"))
              /\ UNCHANGED <<result, ncb>>
         ELSE /\ Return(c, "none", finish(d.key, d.cert, d.ca, d.dhparam))
              /\ UNCHANGED <<log, ngen, gen>>
  /\ UNCHANGED <<db, db0, opts, data, pending, nstarted>>

\* The callback of pem.createCertificate when the generator failed.
createCertificateFailed(c) ==
  /\ pc[c] = "certgen"
  /\ Return(c, "CertGenerationError", Undefined)
  /\ UNCHANGED <<db, db0, opts, data, pending, log, ngen, gen, nstarted>>

\* The callback of pem.createCertificate with a fresh key and certificate:
\* the persisted parameter is taken and inspected, or one is generated.
createCertificateDone(c) ==
  /\ pc[c] = "certgen"
  /\ data' = [data EXCEPT ![c] = [key |-> Text(<<"k", "s">>),
                                  cert |-> Text(PEM("s")),
                                  ca |-> Undefined,
                                  dhparam |-> db]]
  /\ IF Truthy(db)
     THEN /\ pc' = [pc EXCEPT ![c] = "inspect"]
          /\ UNCHANGED <<log, ngen, gen>>
     ELSE createDH(c, log[c])
  /\ UNCHANGED <<db, db0, opts, pending, result, ncb, nstarted>>

\* The callback of pem.getDhparamInfo in the self-signed mode.
dhparamInfoSelfSigned(c) ==
  /\ pc[c] = "inspect"
  /\ ~UserMode(opts[c])
  /\ LET info == getDhparamInfo(data[c].dhparam)
     IN  IF info.err
         THEN /\ Return(c, "DHInspectionError", Undefined)
              /\ UNCHANGED <<log, ngen, gen>>
         ELSE IF TooShort(info)
         THEN /\ createDH(c, Append(log[c], "too short"))
              /\ UNCHANGED <<result, ncb>>
         ELSE /\ Return(c, "none", selfSignedData(data[c]))
              /\ UNCHANGED <<log, ngen, gen>>
  /\ UNCHANGED <<db, db0, opts, data, pending, nstarted>>

\* Mutation: a failed generation is tried again.
createDhparamRetried(c) ==
  /\ pc[c] = "dhgen"
  /\ ngen < MaxStarts + 1
  /\ createDH(c, log[c])
  /\ UNCHANGED <<db, db0, opts, data, pending, result, ncb, nstarted>>

\* Mutation: the return after cb(err) is missing, the call stays pending.
createDhparamFailedNoReturn(c) ==
  /\ pc[c] = "dhgen"
  /\ ncb[c] < 2
  /\ result' = [result EXCEPT ![c] =
                  [err |-> "DHGenerationError", bundle |-> Undefined]]
  /\ ncb' = [ncb EXCEPT ![c] = @ + 1]
  /\ UNCHANGED <<db, db0, pc, opts, data, pending, log, ngen, gen, nstarted>>

\* Mutation: the store entry is cleared when the generation fails.
createDhparamFailedClearing(c) ==
  /\ pc[c] = "dhgen"
  /\ db' = Undefined
  /\ Return(c, "DHGenerationError", Undefined)
  /\ UNCHANGED <<db0, opts, data, pending, log, ngen, gen, nstarted>>

\* The callback of pem.createDhparam when the generator failed: cb(err).
createDhparamFailed(c) ==
  /\ pc[c] = "dhgen"
  /\ Return(c, "DHGenerationError", Undefined)
  /\ UNCHANGED <<db, db0, opts, data, pending, log, ngen, gen, nstarted>>

\* The callback of pem.createDhparam with a parameter: it is written to the
\* database, then handed to the continuation of the call's mode.
createDhparamDone(c) ==
  /\ pc[c] = "dhgen"
  /\ LET dh == createDhparam(DHPARAM_BITS, gen[c])
         d  == data[c]
     IN  /\ db' = dbSet(db, dh)
         /\ IF UserMode(opts[c])
            THEN /\ Return(c, "none", finish(d.key, d.cert, d.ca, dh))
                 /\ UNCHANGED data
            ELSE /\ data' = [data EXCEPT ![c].dhparam = dh]
                 /\ Return(c, "none", selfSignedData(data'[c]))
  /\ UNCHANGED <<db0, opts, pending, log, ngen, gen, nstarted>>

Next ==
  \/ \E c \in Calls, o \in Configs : tlsInit(c, o)
  \/ \E c \in Calls : mapCallback(c)
  \/ \E c \in Calls : dhparamInfoUser(c)
  \/ \E c \in Calls : createCertificateFailed(c)
  \/ \E c \in Calls : createCertificateDone(c)
  \/ \E c \in Calls : dhparamInfoSelfSigned(c)
  \/ \E c \in Calls : createDhparamFailed(c)
  \/ \E c \in Calls : createDhparamDone(c)

Spec == Init /\ [][Next]_vars

\* ---------------------------------------------------------------- claims
\* Vocabulary of the properties.
Strong(v) == v.t = "dh" /\ v.bits >= 1024
Weak(v) == v.t = "dh" /\ v.bits > 0 /\ v.bits < 1024
\* The call resolves its DH parameter from the persisted store.
UsesStore(o) == o.key = NoPath \/ o.cert = NoPath \/ o.dhparam = NoPath
\* The call was configured with a dhparam file next to key and cert.
UsesFile(o) == o.key # NoPath /\ o.cert # NoPath /\ o.dhparam # NoPath
\* This step is the successful end of call c's DH generation.
GenerationEnds(c) == pc[c] = "dhgen" /\ pc'[c] = "done"
\* Call c completes in this step.
Completes(c) == pc[c] \notin {"done", "failed"} /\ pc'[c] = "done"

\* C1: every successful tlsInit call, in either mode and whatever the origin
\* of the candidate, returns a dhparam of at least 1024 bits.
C1_ReturnedDhIsStrong ==
  \A c \in Calls : pc[c] = "done" => Strong(result[c].bundle.dhparam)

\* C2 (as stated): the regeneration caused by a weak user-supplied dhparam
\* file leaves the persisted value as it was, and the persisted value is
\* written only by regenerations of calls in persisted-store mode.
C2_WeakFileLeavesStore ==
  [][/\ \A c \in Calls :
          GenerationEnds(c) /\ UsesFile(opts[c]) => db' = db
     /\ db' # db =>
          \E c \in Calls : GenerationEnds(c) /\ UsesStore(opts[c])]_vars

\* C2 (amended): the regeneration caused by a weak user-supplied dhparam file
\* returns the fresh 2048-bit parameter in the bundle and also writes it to
\* the persisted store; the persisted value is written only at the successful
\* end of a generation, in either mode, and then holds the parameter that
\* call returns.
C2_StoreWrittenByEveryRegeneration ==
  [][/\ \A c \in Calls :
          GenerationEnds(c) /\ UsesFile(opts[c]) =>
            /\ db' = createDhparam(2048, gen[c])
            /\ result'[c].bundle.dhparam = db'
     /\ db' # db =>
          \E c \in Calls : /\ GenerationEnds(c)
                           /\ result'[c].bundle.dhparam = db']_vars

\* A call with the weak dhparam file has regenerated: its bundle and the
\* store hold the generated parameter.
C2_Witness ==
  \E c \in Calls :
    /\ pc[c] = "done"
    /\ opts[c].key = "key.pem" /\ opts[c].dhparam = "dh512.pem"
    /\ result[c].bundle.dhparam.from = "gen"
    /\ db = result[c].bundle.dhparam
    /\ db # db0

\* C3 (as stated): starting from a persisted parameter of at least 1024 bits,
\* the persisted value never changes, whatever calls are made, and every
\* successful call that resolves from the store returns it.
C3_StrongStoreNeverChanges ==
  Strong(db0) =>
    /\ db = db0
    /\ \A c \in Calls :
         pc[c] = "done" /\ UsesStore(opts[c]) =>
           result[c].bundle.dhparam = db0

\* C3 (amended): starting from a persisted parameter P of at least 1024 bits,
\* the persisted value is changed only by the regeneration of a call whose
\* user-supplied dhparam file is weak; every other step leaves it P, and as
\* long as it is P every call that resolves from the store returns exactly P.
C3_StrongStoreChangedOnlyByWeakFile ==
  [][Strong(db0) /\ db = db0 =>
       /\ db' = db0 \/ \E c \in Calls : /\ GenerationEnds(c)
                                        /\ UsesFile(opts[c])
                                        /\ Weak(Contents(opts[c].dhparam))
       /\ \A c \in Calls :
            Completes(c) /\ UsesStore(opts[c]) =>
              result'[c].bundle.dhparam = db0]_vars

\* Two calls resolved from the strong persisted parameter; it is unchanged.
C3_Witness ==
  /\ Strong(db0) /\ db = db0
  /\ \A c \in Calls :
       /\ pc[c] = "done" /\ UsesStore(opts[c])
       /\ result[c].bundle.dhparam = db0
  /\ \E c \in Calls : opts[c].key = NoPath
  /\ \E c \in Calls : opts[c].key # NoPath /\ opts[c].cert # NoPath

\* C4: starting from a persisted parameter of less than 1024 bits, a
\* successful call that uses the persisted store leaves a freshly generated
\* 2048-bit parameter persisted, and a call that then reads the store neither
\* regenerates nor changes it.
C4_WeakStoreReplacedOnce ==
  /\ [](Weak(db0) =>
          \A c \in Calls :
            pc[c] = "done" /\ UsesStore(opts[c]) =>
              db.from = "gen" /\ db.bits = 2048)
  /\ [][\A c \in Calls :
          /\ Weak(db0) /\ db.from = "gen" /\ UsesStore(opts[c])
          /\ pc[c] \in {"reading", "certgen"}
          /\ pc'[c] \in {"inspect", "dhgen", "done"}
          => pc'[c] # "dhgen" /\ db' = db]_vars

\* C5: a certificate file LEAF_PEM + CHAIN_PEM with no ca configured is
\* returned as cert = LEAF_PEM and ca = CHAIN_PEM, for a chain of one or more
\* blocks.
C5_BundleSplitIsLossless ==
  \A c \in Calls :
    /\ pc[c] = "done"
    /\ opts[c].key # NoPath
    /\ opts[c].cert \in {"chain2.crt", "chain3.crt"}
    /\ opts[c].ca = NoPath
    => /\ result[c].bundle.cert = Text(LeafOf(opts[c].cert))
       /\ result[c].bundle.ca = Text(ChainOf(opts[c].cert))

\* The file at path p is absent or cannot be read.
Unreadable(p) == ~IsFile(p) \/ ReadFails(p)
\* The error of the first of key, cert, ca, dhparam that is unreadable.
FirstUnreadable(o) ==
  IF Unreadable(o.key) THEN "MissingKeyFile"
  ELSE IF Unreadable(o.cert) THEN "MissingCertFile"
  ELSE IF o.ca # NoPath /\ Unreadable(o.ca) THEN "MissingCAFile"
  ELSE IF o.dhparam # NoPath /\ Unreadable(o.dhparam) THEN "MissingDHParamFile"
  ELSE "none"
\* The path whose absence the error reports.
PathOf(o, err) ==
  CASE err = "MissingKeyFile"     -> o.key
    [] err = "MissingCertFile"    -> o.cert
    [] err = "MissingCAFile"      -> o.ca
    [] err = "MissingDHParamFile" -> o.dhparam

\* C6: in user-supplied mode the call fails with the error of the first of
\* key, cert, ca, dhparam that is absent or unreadable, whatever the order in
\* which the reads complete, and a Missing* error is reported only for a file
\* that is absent or unreadable.
C6_FirstUnreadableFileWins ==
  \A c \in Calls :
    opts[c].key # NoPath /\ opts[c].cert # NoPath /\ Finished(c) =>
      /\ FirstUnreadable(opts[c]) # "none" =>
           result[c].err = FirstUnreadable(opts[c])
      /\ result[c].err \in {"MissingKeyFile", "MissingCertFile",
                            "MissingCAFile", "MissingDHParamFile"} =>
           Unreadable(PathOf(opts[c], result[c].err))

\* C7: a call whose configuration misses key or cert never reads a file, and
\* when it succeeds its bundle is self-signed with no ca, even if ca is set.
C7_MissingKeyOrCertIsSelfSigned ==
  \A c \in Calls :
    pc[c] # "idle" /\ (opts[c].key = NoPath \/ opts[c].cert = NoPath) =>
      /\ pc[c] # "reading"
      /\ pending[c] = {}
      /\ pc[c] = "done" =>
           /\ result[c].bundle.selfsigned = TRUE
           /\ result[c].bundle.ca = Undefined
           /\ result[c].bundle.key # Contents("key.pem")
           /\ result[c].bundle.cert # Contents("leaf.crt")
           /\ result[c].bundle.dhparam.from # "file"

\* A call given a key, a ca and a dhparam path but no cert has succeeded.
C7_Witness ==
  \E c \in Calls :
    /\ pc[c] = "done"
    /\ opts[c].key = "key.pem" /\ opts[c].cert = NoPath
    /\ opts[c].ca = "ca.pem" /\ opts[c].dhparam = "dh512.pem"
    /\ result[c].bundle.selfsigned = TRUE

\* C8: a call whose key and cert paths are set and readable never invokes the
\* self-signed certificate generator, and when it succeeds its bundle is not
\* self-signed and carries the contents of the key file.
C8_ReadableKeyAndCertIsUserSupplied ==
  \A c \in Calls :
    /\ opts[c].key # NoPath /\ ~Unreadable(opts[c].key)
    /\ opts[c].cert # NoPath /\ ~Unreadable(opts[c].cert)
    => /\ pc[c] # "certgen"
       /\ pc[c] = "done" =>
            /\ result[c].bundle.selfsigned = FALSE
            /\ result[c].bundle.key = Contents(opts[c].key)

\* A call with readable key and cert files has succeeded.
C8_Witness ==
  \E c \in Calls :
    /\ pc[c] = "done"
    /\ opts[c].key = "key.pem" /\ opts[c].cert = "chain2.crt"
    /\ result[c].bundle.key = Contents("key.pem")

\* C9: two self-signed calls running concurrently from an empty store: when
\* both have ended and no generator failed, both succeeded and the store holds
\* a parameter of at least 1024 bits.
C9_ConcurrentSelfSigned ==
  (/\ db0 = Undefined
   /\ \A c \in Calls :
        /\ Finished(c)
        /\ opts[c].key = NoPath \/ opts[c].cert = NoPath
        /\ result[c].err \notin {"CertGenerationError", "DHGenerationError"})
  => /\ \A c \in Calls : pc[c] = "done" /\ result[c].err = "none"
     /\ Strong(db)

\* Both concurrent self-signed calls found the store empty, generated and
\* succeeded; the store holds the parameter of the one that ended last.
C9_Witness ==
  /\ db0 = Undefined
  /\ \A c \in Calls :
       /\ pc[c] = "done" /\ opts[c].key = NoPath
       /\ result[c].bundle.dhparam.from = "gen"
  /\ result[1].bundle.dhparam # result[2].bundle.dhparam
  /\ \E c \in Calls : db = result[c].bundle.dhparam

\* The candidate of a call that passed validation or certificate generation:
\* the contents of its dhparam file, else the persisted value.
Candidate(c) ==
  IF UsesFile(opts[c]) THEN data[c].dhparam ELSE db

\* C10: the bundle of every successful call has a dhparam, and a call whose
\* candidate is missing starts a generation.
C10_DhparamAlwaysPresent ==
  /\ [](\A c \in Calls :
          pc[c] = "done" =>
            /\ result[c].bundle.dhparam # Undefined
            /\ result[c].bundle.dhparam.t = "dh")
  /\ [][\A c \in Calls :
          /\ pc[c] \in {"reading", "certgen"}
          /\ pc'[c] \in {"inspect", "dhgen", "done"}
          /\ Candidate(c)' = Undefined
          => pc'[c] = "dhgen"]_vars

\* A call that found no candidate has returned the parameter it generated.
C10_Witness ==
  \E c \in Calls :
    /\ pc[c] = "done"
    /\ db0 = Undefined
    /\ UsesStore(opts[c]) /\ opts[c].key = "key.pem"
    /\ result[c].bundle.dhparam = createDhparam(DHPARAM_BITS, 1)

\* C11: in user-supplied mode the validation runs only after every issued
\* read of key, cert, ca and dhparam has completed, also when a read ends
\* with an I/O error.
C11_ReadsJoinedBeforeValidation ==
  \A c \in Calls : pc[c] \notin {"idle", "reading"} => pending[c] = {}

\* Call c invokes the DH generator in this step.
InvokesGenerator(c) == gen'[c] # gen[c] /\ gen'[c] # 0

\* C12: a call invokes the DH generator at most once; a failed generation or
\* inspection ends the call as failed without a further generation, and a
\* failed call stays failed.
C12_AtMostOneGeneration ==
  [][\A c \in Calls :
       /\ InvokesGenerator(c) => gen[c] = 0
       /\ /\ pc[c] \in {"inspect", "dhgen"}
          /\ result'[c].err \in {"DHInspectionError", "DHGenerationError"}
          => pc'[c] = "failed" /\ ngen' = ngen /\ gen'[c] = gen[c]
       /\ pc[c] = "failed" /\ nstarted' = nstarted =>
            pc'[c] = "failed" /\ gen'[c] = gen[c] /\ result'[c] = result[c]]_vars

\* A call whose generation failed has ended as failed, one generation made.
C12_Witness ==
  \E c \in Calls :
    /\ pc[c] = "failed" /\ result[c].err = "DHGenerationError"
    /\ gen[c] = 1 /\ ngen = 1
    /\ log[c] = <<"too short", "generating">>

\* C13: a user-supplied dhparam file of at least 1024 bits is returned as it
\* is: the generator is not invoked and no step of the call writes the store.
C13_StrongFileAccepted ==
  /\ [](\A c \in Calls :
          UsesFile(opts[c]) /\ Strong(Contents(opts[c].dhparam)) =>
            /\ pc[c] # "dhgen" /\ gen[c] = 0
            /\ pc[c] = "done" =>
                 result[c].bundle.dhparam = Contents(opts[c].dhparam))
  /\ [][\A c \in Calls :
          /\ UsesFile(opts[c]) /\ Strong(Contents(opts[c].dhparam))
          /\ pc'[c] # pc[c]
          => db' = db]_vars

\* A call with the 1024-bit dhparam file has returned the file's contents
\* while the store holds another value.
C13_Witness ==
  \E c \in Calls :
    /\ pc[c] = "done" /\ opts[c].dhparam = "dh1024.pem"
    /\ opts[c].key = "key.pem"
    /\ result[c].bundle.dhparam = DH(1024, "file", 0)
    /\ db # result[c].bundle.dhparam /\ db # Undefined

\* C14: the store is last-writer-wins: every generation that ends writes its
\* own parameter over whatever is persisted, nothing else writes, and once a
\* generated parameter is persisted the store always holds some call's
\* complete 2048-bit parameter.
C14_LastWriterWins ==
  [][/\ \A c \in Calls :
          GenerationEnds(c) => db' = DH(2048, "gen", gen[c])
     /\ db' # db => \E c \in Calls : GenerationEnds(c)
     /\ db.t = "dh" /\ db.from = "gen" =>
          /\ db'.t = "dh" /\ db'.from = "gen" /\ db'.bits = 2048
          /\ db'.n \in 1..ngen]_vars

\* Two calls regenerated concurrently; the store holds the parameter of the
\* call that invoked the generator first and ended last.
C14_Witness ==
  \E c, b \in Calls :
    /\ pc[c] = "done" /\ pc[b] = "done"
    /\ result[c].bundle.dhparam = DH(2048, "gen", 1)
    /\ result[b].bundle.dhparam = DH(2048, "gen", 2)
    /\ db = result[c].bundle.dhparam

\* The candidate of a call that is inspecting or has just resolved.
WeakCandidate(c) == pc[c] = "inspect" /\ Weak(data[c].dhparam)
MissingCandidate(c) ==
  pc[c] \in {"reading", "certgen"} /\ UsesStore(opts[c]) /\ db = Undefined

\* C15: while the generator runs the generation-start message is already
\* logged; the weak-DH warning is logged right before it when the candidate
\* was weak, and never when the candidate was missing or strong.
C15_LogOrdering ==
  /\ [](\A c \in Calls :
          /\ log[c] \in {<<>>, <<"generating">>, <<"too short", "generating">>}
          /\ pc[c] = "dhgen" => log[c] # <<>>
          /\ gen[c] = 0 <=> log[c] = <<>>)
  /\ [][\A c \in Calls :
          /\ InvokesGenerator(c) =>
               /\ log[c] = <<>>
               /\ WeakCandidate(c) => log'[c] = <<"too short", "generating">>
               /\ MissingCandidate(c) => log'[c] = <<"generating">>
               /\ WeakCandidate(c) \/ MissingCandidate(c)
          /\ log'[c] # log[c] /\ log'[c] # <<>> => InvokesGenerator(c)]_vars

\* A call that found a weak candidate is generating, both messages logged.
C15_Witness ==
  \E c \in Calls :
    /\ pc[c] = "dhgen" /\ opts[c].key = NoPath
    /\ Weak(data[c].dhparam)
    /\ log[c] = <<"too short", "generating">>

\* Number of occurrences of pat in s.
CountOf(s, pat) ==
  Cardinality({i \in 1..Len(s) : i + Len(pat) - 1 <= Len(s)
                                 /\ \A k \in 1..Len(pat) : s[i + k - 1] = pat[k]})
IsPrefix(p, s) == Len(p) <= Len(s) /\ \A k \in 1..Len(p) : p[k] = s[k]
IsSuffix(p, s) ==
  Len(p) <= Len(s) /\ \A k \in 1..Len(p) : p[k] = s[Len(s) - Len(p) + k]

\* C16: with a ca file configured, or at most one begin-delimiter in the
\* certificate file, cert and ca are the contents of their files (ca absent
\* when none is configured); otherwise ca is the part of the file from its
\* last begin-delimiter and cert the part through its first end-delimiter.
C16_SplitOnlyWhenCombined ==
  \A c \in Calls :
    pc[c] = "done" /\ opts[c].key # NoPath /\ opts[c].cert # NoPath =>
      LET file == Contents(opts[c].cert)
          b    == result[c].bundle
      IN  IF opts[c].ca # NoPath \/ CountOf(file.s, <<"-", "B", "-">>) <= 1
          THEN /\ b.cert = file
               /\ b.ca = Contents(opts[c].ca)
          ELSE /\ b.ca.t = "text" /\ b.cert.t = "text"
               /\ IsSuffix(b.ca.s, file.s)
               /\ IsPrefix(<<"-", "B", "-">>, b.ca.s)
               /\ CountOf(b.ca.s, <<"-", "B", "-">>) = 1
               /\ IsPrefix(b.cert.s, file.s)
               /\ IsSuffix(<<"-", "E", "-">>, b.cert.s)
               /\ CountOf(b.cert.s, <<"-", "E", "-">>) = 1

\* The three-block file has been split: cert is its first block, ca its last.
C16_Witness ==
  \E c \in Calls :
    /\ pc[c] = "done" /\ opts[c].key = "key.pem"
    /\ opts[c].cert = "chain3.crt" /\ opts[c].ca = NoPath
    /\ result[c].bundle.cert.s = <<"-", "B", "-", "l", "-", "E", "-">>
    /\ result[c].bundle.ca.s = <<"-", "B", "-", "r", "-", "E", "-">>

\* The call runs in self-signed mode: its configuration misses key or cert.
MissesKeyOrCert(o) == o.key = NoPath \/ o.cert = NoPath

\* C17: a call without key or cert never reads the configured dhparam or ca
\* path; its DH parameter is the persisted one when that has at least 1024
\* bits, and a freshly generated one when the store is empty or holds a
\* weaker one.
C17_SelfSignedUsesStoreOnly ==
  /\ [](\A c \in Calls :
          MissesKeyOrCert(opts[c]) =>
            /\ pc[c] # "reading"
            /\ data[c].dhparam.t = "dh" => data[c].dhparam.from # "file"
            /\ pc[c] = "done" =>
                 /\ result[c].bundle.dhparam.from \in {"db0", "gen"}
                 /\ result[c].bundle.dhparam.bits >= 1024
                 /\ result[c].bundle.ca = Undefined)
  /\ [][\A c \in Calls :
          MissesKeyOrCert(opts[c]) /\ pc'[c] # pc[c] =>
            /\ pc[c] = "certgen" /\ pc'[c] # "failed" =>
                 /\ data'[c].dhparam = db
                 /\ pc'[c] = IF db = Undefined THEN "dhgen" ELSE "inspect"
            /\ pc[c] = "inspect" /\ Weak(data[c].dhparam) => pc'[c] = "dhgen"
            /\ pc[c] = "inspect" /\ Strong(data[c].dhparam) =>
                 /\ pc'[c] = "done"
                 /\ result'[c].bundle.dhparam = data[c].dhparam
                 /\ ngen' = ngen /\ db' = db]_vars

\* A call with no cert but a 512-bit dhparam file configured has returned the
\* strong persisted parameter.
C17_Witness ==
  \E c \in Calls :
    /\ pc[c] = "done"
    /\ opts[c].cert = NoPath /\ opts[c].dhparam = "dh512.pem"
    /\ Strong(db0)
    /\ result[c].bundle.dhparam = db0

\* C18: the callback of a call is invoked at most once, and exactly once
\* when the call has ended: with an error and no bundle, or with no error
\* and a bundle.
C18_CallbackExactlyOnce ==
  \A c \in Calls :
    /\ ncb[c] <= 1
    /\ ncb[c] = 1 <=> pc[c] \in {"done", "failed"}
    /\ ncb[c] = 0 => result[c] = [err |-> "none", bundle |-> Undefined]
    /\ ncb[c] = 1 =>
         \/ result[c].err # "none" /\ result[c].bundle = Undefined
         \/ /\ result[c].err = "none"
            /\ result[c].bundle # Undefined
            /\ result[c].bundle.dhparam # Undefined
    /\ pc[c] = "failed" => result[c].err # "none"
    /\ pc[c] = "done" => result[c].err = "none"

\* One call has ended with an error, the other with a bundle, each having
\* invoked its callback once.
C18_Witness ==
  \E c, b \in Calls :
    /\ pc[c] = "failed" /\ result[c].err = "CertGenerationError"
    /\ pc[b] = "done" /\ result[b].err = "none"
    /\ ncb[c] = 1 /\ ncb[b] = 1

\* C19: the store is written only in the step in which a call completes
\* successfully; a step in which a call fails leaves the store as it is, and
\* a call that has written does not fail afterwards.
C19_FailedCallsLeaveStore ==
  [][/\ \A c \in Calls :
          pc'[c] = "failed" /\ pc[c] # "failed" => db' = db
     /\ db' # db =>
          \E c \in Calls :
            /\ pc[c] \notin {"done", "failed"}
            /\ pc'[c] = "done" /\ result'[c].err = "none"
            /\ ncb'[c] = ncb[c] + 1
     /\ \A c \in Calls :
          pc[c] = "done" /\ pc'[c] = "failed" => nstarted' = nstarted + 1]_vars

\* A call has failed in its generation and the store is as at the start.
C19_Witness ==
  \E c \in Calls :
    /\ pc[c] = "failed" /\ result[c].err = "DHGenerationError"
    /\ Weak(db0) /\ db = db0
    /\ nstarted = 1

\* C20: the store holds its initial value or the output of a generation at
\* 2048 bits, never the contents of a dhparam file, and a call that ends its
\* generation returns the very value written in that step.
C20_OnlyGeneratedValuesStored ==
  /\ [](\/ db = db0
        \/ /\ db.t = "dh" /\ db.from = "gen" /\ db.bits = 2048
           /\ db.n \in 1..ngen)
  /\ [](\A p \in DhPaths : db # Contents(p) \/ db = Undefined)
  /\ [][\A c \in Calls :
          pc[c] = "dhgen" /\ pc'[c] = "done" =>
            /\ result'[c].bundle.dhparam = db'
            /\ db'.n = gen[c] /\ db'.bits = 2048]_vars

\* A call with the strong dhparam file and one with the weak one have both
\* succeeded; only the generated parameter is in the store.
C20_Witness ==
  \E c, b \in Calls :
    /\ pc[c] = "done" /\ opts[c].dhparam = "dh1024.pem" /\ opts[c].key = "key.pem"
    /\ pc[b] = "done" /\ opts[b].dhparam = "dh512.pem" /\ opts[b].key = "key.pem"
    /\ db = result[b].bundle.dhparam
    /\ db.from = "gen" /\ db.bits = 2048

====
